---- MODULE Spec2Model ----
(***************************************************************************)
(* Model of src/ViewModels/GeoDataSourceViewModel.js: the view-model of    *)
(* one data source (layer) of the catalogue, its three observable flags,   *)
(* the two change handlers subscribed to isEnabled and isShown, zoomTo and *)
(* the derived legend properties.                                          *)
(*                                                                         *)
(* Angles are fixed-point, in units of 1e-4 radian.  Times are in          *)
(* milliseconds, counted from an arbitrary positive origin.  An optional   *)
(* JavaScript value is the empty set (undefined) or a singleton set.       *)
(***************************************************************************)
EXTENDS Integers, Sequences, FiniteSets, TLC

(* ---------------------------------------------------------------------- *)
(* Optional values                                                         *)
(* ---------------------------------------------------------------------- *)
None == {}

Some(v) == {v}

defined(x) == x # None

Val(x) == CHOOSE v \in x : TRUE

(* ---------------------------------------------------------------------- *)
(* Bounds of the model                                                     *)
(* ---------------------------------------------------------------------- *)
\* clock value at construction; Date.now() is positive
StartTime == 1000

\* the clock advances by at most MaxElapsed after construction
MaxElapsed == 1500

MaxTime == StartTime + MaxElapsed

\* a legend URL is the concatenation of at most MaxParts parts
MaxParts == 3

(* ---------------------------------------------------------------------- *)
(* Program constants                                                       *)
(* ---------------------------------------------------------------------- *)
\* CesiumMath.EPSILON3 = 0.001
EPSILON3 == 10

\* the literal 3.14 of zoomTo
HalfWorld == 31400

\* CesiumMath.PI and CesiumMath.PI_OVER_TWO, the corners of Rectangle.MAX_VALUE
PI == 31416

PI_OVER_TWO == 15708

\* the divisor 1000.0 that converts milliseconds to seconds
MsPerSecond == 1000

Rect(w, s, e, n) == [west |-> w, south |-> s, east |-> e, north |-> n]

MAX_VALUE == Rect(-PI, -PI_OVER_TWO, PI, PI_OVER_TWO)

\* steps by which the clock advances between operations
Steps == {500, 1000}

\* time that may pass between two Date.now() calls of one operation
Delays == {0, 500}

\* rectangles assigned to the layer in the main specification
MainRectangles == {Some(MAX_VALUE), Some(Rect(0, 0, 100, 100))}

\* rectangles assigned to the layer in the zoom specification: every case of
\* width (negative, zero, below epsilon, epsilon, ordinary, exactly 3.14,
\* above 3.14) and of height (zero, below epsilon, epsilon, ordinary)
ZoomRectangles ==
    {None, Some(MAX_VALUE)}
    \cup {Some(Rect(0, 0, e, n)) : e \in {-5, 0, 9, 10, 100, HalfWorld, HalfWorld + 1}, n \in {9, 100}}
    \cup {Some(Rect(0, 0, 100, n)) : n \in {-5, 0, 10}}

VARIABLES
    isEnabled,          \* this.isEnabled
    isShown,            \* this.isShown
    isLegendVisible,    \* this.isLegendVisible
    enabledDate,        \* this._enabledDate, optional
    shownDate,          \* this._shownDate, optional
    rectangle,          \* this.rectangle, optional
    legendUrl,          \* this.legendUrl, optional sequence of characters
    scratchRectangle,   \* the module-level scratchRectangle
    cesiumScene,        \* defined(context.cesiumScene)
    leafletMap,         \* defined(context.leafletMap)
    nowViewing,         \* context.nowViewing, the sequence of its items
    clock,              \* what Date.now() returns
    effects,            \* calls made on collaborators by the last operation
    lastCall,           \* the last operation called on the layer
    enabledAt,          \* clock at the end of the last operation that enabled the layer
    shownAt,            \* clock when isShown last changed to true
    monitor,            \* the analytics events seen since construction
    engineMonitor       \* the engine hooks seen since construction, when watched

vars == <<isEnabled, isShown, isLegendVisible, enabledDate, shownDate, rectangle,
          legendUrl, scratchRectangle, cesiumScene, leafletMap, nowViewing, clock,
          effects, lastCall, enabledAt, shownAt, monitor, engineMonitor>>

\* the fields of the layer itself
layerVars == <<isEnabled, isShown, isLegendVisible, enabledDate, shownDate, rectangle,
               legendUrl, nowViewing>>

(* ---------------------------------------------------------------------- *)
(* Effects on collaborators                                                *)
(* ---------------------------------------------------------------------- *)
\* a call of one of the engine hooks of the concrete subtype
Hook(name) == [kind |-> "hook", name |-> name]

\* ga('send', 'event', 'dataSource', action, this.name, value)
Ga(action, value) == [kind |-> "ga", name |-> action, value |-> value]

NowViewingCall(name) == [kind |-> "nowViewing", name |-> name]

ConsoleLog == [kind |-> "log", name |-> "Extent is wider than half the world.  Ignoring zoomto"]

Tween(rect) == [kind |-> "tween", name |-> "tweens.add", destination |-> rect]

FitBounds(bounds) == [kind |-> "fitBounds", name |-> "fitBounds", bounds |-> bounds]

\* the layer is the only item this model puts in the collection
Self == "viewModel"

\* NowViewingViewModel.add / remove
nowViewingAdd(items, item) == Append(items, item)

nowViewingRemove(items, item) == SelectSeq(items, LAMBDA x : x # item)

InNowViewing == \E i \in 1..Len(nowViewing) : nowViewing[i] = Self

\* as TruncSeconds, but rounded to the nearest second as Math.round would
TruncSeconds_Rounded(ms) == (ms + 500) \div MsPerSecond

\* (x / 1000.0) | 0 : division truncated towards zero (all durations of the
\* model are far below 2^31, where | 0 would wrap)
TruncSeconds(ms) == IF ms >= 0 THEN ms \div MsPerSecond ELSE -((-ms) \div MsPerSecond)

\* if (viewModel._enabledDate): undefined and 0 are both falsy
truthyDate(x) == defined(x) /\ Val(x) # 0

(* ---------------------------------------------------------------------- *)
(* The collaborators' view of the layer.  monitor holds the last of the    *)
(* added / removed and of the shown / hidden events, and whether these     *)
(* have alternated so far.  engineMonitor holds what each engine was last  *)
(* told, whether every disable and hide hook followed an enable or show    *)
(* hook of the same engine, and whether an engine handle was set or        *)
(* cleared while the layer was enabled or shown; it follows the hooks only *)
(* in the specifications that watch the engines, and stops at the first    *)
(* hook that is not paired.                                                *)
(* ---------------------------------------------------------------------- *)
NothingSeen == [lastAddRemove |-> "none", lastShowHide |-> "none", alternating |-> TRUE]

\* the monitor m after the call e
ObserveOne(m, e) ==
    IF e.kind = "ga" /\ e.name \in {"added", "removed"}
    THEN [m EXCEPT !.alternating = @ /\ e.name # m.lastAddRemove
                                      /\ (m.lastAddRemove = "none" => e.name = "added"),
                   !.lastAddRemove = e.name]
    ELSE IF e.kind = "ga" /\ e.name \in {"shown", "hidden"}
    THEN [m EXCEPT !.alternating = @ /\ e.name # m.lastShowHide
                                      /\ (m.lastShowHide = "none" => e.name = "shown"),
                   !.lastShowHide = e.name]
    ELSE m

\* the monitor m after the calls es, in their order
RECURSIVE Observe(_, _)
Observe(m, es) == IF es = <<>> THEN m ELSE Observe(ObserveOne(m, Head(es)), Tail(es))

NoHookSeen(watching) ==
    [watching |-> watching,
     cesiumEnabled |-> FALSE, cesiumShown |-> FALSE,
     leafletEnabled |-> FALSE, leafletShown |-> FALSE,
     paired |-> TRUE, tampered |-> FALSE]

\* the engine monitor m after the call e
ObserveHook(m, e) ==
    IF ~m.watching \/ ~m.paired \/ e.kind # "hook" THEN m
    ELSE IF e.name = "enableInCesium" THEN [m EXCEPT !.cesiumEnabled = TRUE]
    ELSE IF e.name = "enableInLeaflet" THEN [m EXCEPT !.leafletEnabled = TRUE]
    ELSE IF e.name = "showInCesium" THEN [m EXCEPT !.cesiumShown = TRUE]
    ELSE IF e.name = "showInLeaflet" THEN [m EXCEPT !.leafletShown = TRUE]
    ELSE IF e.name = "disableInCesium"
    THEN [m EXCEPT !.paired = m.cesiumEnabled, !.cesiumEnabled = FALSE]
    ELSE IF e.name = "disableInLeaflet"
    THEN [m EXCEPT !.paired = m.leafletEnabled, !.leafletEnabled = FALSE]
    ELSE IF e.name = "hideInCesium"
    THEN [m EXCEPT !.paired = m.cesiumShown, !.cesiumShown = FALSE]
    ELSE IF e.name = "hideInLeaflet"
    THEN [m EXCEPT !.paired = m.leafletShown, !.leafletShown = FALSE]
    ELSE m

\* the engine monitor m after the calls es, in their order
RECURSIVE ObserveHooks(_, _)
ObserveHooks(m, es) ==
    IF es = <<>> THEN m ELSE ObserveHooks(ObserveHook(m, Head(es)), Tail(es))

\* the engine monitor m after an assignment to an engine handle of the context
HandleChanged(m, changed) ==
    IF m.watching /\ changed /\ (isEnabled \/ isShown)
    THEN [m EXCEPT !.tampered = TRUE]
    ELSE m

(* ---------------------------------------------------------------------- *)
(* The change handlers.  They work on a record s of the fields they read   *)
(* and write; c and l tell whether context.cesiumScene and                 *)
(* context.leafletMap are defined.                                         *)
(* ---------------------------------------------------------------------- *)
LayerState ==
    [isEnabled |-> isEnabled, isShown |-> isShown, enabledDate |-> enabledDate,
     shownDate |-> shownDate, nowViewing |-> nowViewing, clock |-> clock,
     effects |-> <<>>]

\* as isShownChanged, but the shown timestamp is written only while undefined
isShownChanged_KeepsFirstDate(s, c, l) ==
    LET e1 == IF c THEN <<Hook(IF s.isShown THEN "showInCesium" ELSE "hideInCesium")>> ELSE <<>>
        e2 == IF l THEN <<Hook(IF s.isShown THEN "showInLeaflet" ELSE "hideInLeaflet")>> ELSE <<>>
        now == s.clock
        duration == IF defined(s.shownDate) THEN Some(TruncSeconds(now - Val(s.shownDate)))
                    ELSE IF truthyDate(s.enabledDate) THEN Some(TruncSeconds(now - Val(s.enabledDate)))
                    ELSE None
    IN  IF s.isShown
        THEN [s EXCEPT !.effects = @ \o e1 \o e2 \o <<Ga("shown", None)>>,
                       !.shownDate = IF defined(@) THEN @ ELSE Some(now)]
        ELSE [s EXCEPT !.effects = @ \o e1 \o e2 \o <<Ga("hidden", duration)>>]

isShownChanged(s, c, l) ==
    LET e1 == IF c THEN <<Hook(IF s.isShown THEN "showInCesium" ELSE "hideInCesium")>> ELSE <<>>
        e2 == IF l THEN <<Hook(IF s.isShown THEN "showInLeaflet" ELSE "hideInLeaflet")>> ELSE <<>>
        now == s.clock
        duration == IF defined(s.shownDate) THEN Some(TruncSeconds(now - Val(s.shownDate)))
                    ELSE IF truthyDate(s.enabledDate) THEN Some(TruncSeconds(now - Val(s.enabledDate)))
                    ELSE None
    IN  IF s.isShown
        THEN [s EXCEPT !.effects = @ \o e1 \o e2 \o <<Ga("shown", None)>>,
                       !.shownDate = Some(now)]
        ELSE [s EXCEPT !.effects = @ \o e1 \o e2 \o <<Ga("hidden", duration)>>]

\* as enabledHooks, but with the test of isEnabled inverted
enabledHooks_Inverted(s, c, l) ==
    (IF c THEN <<Hook(IF ~s.isEnabled THEN "enableInCesium" ELSE "disableInCesium")>> ELSE <<>>)
    \o (IF l THEN <<Hook(IF ~s.isEnabled THEN "enableInLeaflet" ELSE "disableInLeaflet")>> ELSE <<>>)

\* as enabledHooks, but with the 2D engine in an else branch of the 3D test
enabledHooks_ElseIf(s, c, l) ==
    IF c THEN <<Hook(IF s.isEnabled THEN "enableInCesium" ELSE "disableInCesium")>>
    ELSE IF l THEN <<Hook(IF s.isEnabled THEN "enableInLeaflet" ELSE "disableInLeaflet")>>
    ELSE <<>>

\* the engine hooks isEnabledChanged calls, the 3D engine first
enabledHooks(s, c, l) ==
    (IF c THEN <<Hook(IF s.isEnabled THEN "enableInCesium" ELSE "disableInCesium")>> ELSE <<>>)
    \o (IF l THEN <<Hook(IF s.isEnabled THEN "enableInLeaflet" ELSE "disableInLeaflet")>> ELSE <<>>)

\* as autoShow, but a data source disabled while shown is hidden as well
autoShow_HidesOnDisable(s, c, l) ==
    IF s.isEnabled /\ ~s.isShown
    THEN isShownChanged([s EXCEPT !.isShown = TRUE], c, l)
    ELSE IF ~s.isEnabled /\ s.isShown
    THEN isShownChanged([s EXCEPT !.isShown = FALSE], c, l)
    ELSE s

\* as autoShow, but a newly enabled data source is left as it is
autoShow_Omitted(s, c, l) == s

\* Newly-enabled data sources should initially be shown: the write to isShown
\* runs its subscriber before isEnabledChanged goes on
autoShow(s, c, l) ==
    IF s.isEnabled /\ ~s.isShown
    THEN isShownChanged([s EXCEPT !.isShown = TRUE], c, l)
    ELSE s

\* as enabledBookkeeping, but the event of the second branch is 'added' too
enabledBookkeeping_AddedTwice(s, now) ==
    LET duration == IF truthyDate(s.enabledDate)
                    THEN Some(TruncSeconds(now - Val(s.enabledDate)))
                    ELSE None
    IN  IF s.isEnabled
        THEN [s EXCEPT !.nowViewing = nowViewingAdd(@, Self),
                       !.effects = @ \o <<NowViewingCall("add"), Ga("added", None)>>,
                       !.enabledDate = Some(now),
                       !.clock = now]
        ELSE [s EXCEPT !.nowViewing = nowViewingRemove(@, Self),
                       !.effects = @ \o <<NowViewingCall("remove"), Ga("added", duration)>>,
                       !.clock = now]

\* as enabledBookkeeping, but a disabled layer stays in the now-viewing collection
enabledBookkeeping_NoRemove(s, now) ==
    LET duration == IF truthyDate(s.enabledDate)
                    THEN Some(TruncSeconds(now - Val(s.enabledDate)))
                    ELSE None
    IN  IF s.isEnabled
        THEN [s EXCEPT !.nowViewing = nowViewingAdd(@, Self),
                       !.effects = @ \o <<NowViewingCall("add"), Ga("added", None)>>,
                       !.enabledDate = Some(now),
                       !.clock = now]
        ELSE [s EXCEPT !.effects = @ \o <<NowViewingCall("remove"), Ga("removed", duration)>>,
                       !.clock = now]

\* the end of isEnabledChanged: the now-viewing collection, the analytics
\* event and the timestamp; now is what its Date.now() call returns
enabledBookkeeping(s, now) ==
    LET duration == IF truthyDate(s.enabledDate)
                    THEN Some(TruncSeconds(now - Val(s.enabledDate)))
                    ELSE None
    IN  IF s.isEnabled
        THEN [s EXCEPT !.nowViewing = nowViewingAdd(@, Self),
                       !.effects = @ \o <<NowViewingCall("add"), Ga("added", None)>>,
                       !.enabledDate = Some(now),
                       !.clock = now]
        ELSE [s EXCEPT !.nowViewing = nowViewingRemove(@, Self),
                       !.effects = @ \o <<NowViewingCall("remove"), Ga("removed", duration)>>,
                       !.clock = now]

\* as isEnabledChanged, but the data source is shown at the end of the handler
isEnabledChanged_ShowLast(s, c, l, d) ==
    LET s1 == [s EXCEPT !.effects = @ \o enabledHooks(s, c, l)]
        s2 == enabledBookkeeping(s1, s1.clock + d)
    IN  autoShow(s2, c, l)

\* d is the time that passes before the handler's own Date.now() call
isEnabledChanged(s, c, l, d) ==
    LET s1 == [s EXCEPT !.effects = @ \o enabledHooks(s, c, l)]
        s2 == autoShow(s1, c, l)
    IN  enabledBookkeeping(s2, s2.clock + d)

(* ---------------------------------------------------------------------- *)
(* Writes to the tracked properties: a knockout observable notifies its    *)
(* subscribers only when the value written differs from the one it holds.  *)
(* ---------------------------------------------------------------------- *)
writeIsEnabled(s, v, c, l, d) ==
    IF v = s.isEnabled THEN s ELSE isEnabledChanged([s EXCEPT !.isEnabled = v], c, l, d)

\* as writeIsShown, but the subscriber is notified of every write
writeIsShown_AlwaysNotifies(s, v, c, l) == isShownChanged([s EXCEPT !.isShown = v], c, l)

writeIsShown(s, v, c, l) ==
    IF v = s.isShown THEN s ELSE isShownChanged([s EXCEPT !.isShown = v], c, l)

\* the new values of the variables the handlers write
Commit(s) ==
    /\ isEnabled' = s.isEnabled
    /\ isShown' = s.isShown
    /\ enabledDate' = s.enabledDate
    /\ shownDate' = s.shownDate
    /\ nowViewing' = s.nowViewing
    /\ clock' = s.clock
    /\ effects' = s.effects
    /\ enabledAt' = IF s.isEnabled /\ ~isEnabled THEN Some(s.clock) ELSE enabledAt
    /\ shownAt' = IF s.isShown /\ ~isShown THEN Some(clock) ELSE shownAt
    /\ monitor' = Observe(monitor, s.effects)
    /\ engineMonitor' = ObserveHooks(engineMonitor, s.effects)

\* the operation op, called now with isEnabled as it is, returned ret
\* (repeat: the call before it was a call of op too)
Called(op, ret) ==
    lastCall' = [op |-> op, before |-> isEnabled, ret |-> ret, repeat |-> lastCall.op = op]

\* the state after construction at time t; w: the engine hooks are watched
InitAtWatching(t, w) ==
    /\ isEnabled = FALSE
    /\ isShown = FALSE
    /\ isLegendVisible = FALSE
    /\ enabledDate = None
    /\ shownDate = None
    /\ rectangle = Some(MAX_VALUE)
    /\ legendUrl = None
    /\ scratchRectangle = Rect(0, 0, 0, 0)
    /\ cesiumScene \in BOOLEAN
    /\ leafletMap \in BOOLEAN
    /\ nowViewing = <<>>
    /\ clock = t
    /\ effects = <<>>
    /\ lastCall = [op |-> "constructor", before |-> FALSE, ret |-> None, repeat |-> FALSE]
    /\ enabledAt = None
    /\ shownAt = None
    /\ monitor = NothingSeen
    /\ engineMonitor = NoHookSeen(w)

InitAt(t) == InitAtWatching(t, FALSE)

Init == InitAt(StartTime)

(* ---------------------------------------------------------------------- *)
(* Operations of the layer                                                 *)
(* ---------------------------------------------------------------------- *)
\* as toggleEnabled, but returning the negation of the new value
toggleEnabled_ReturnsOld ==
    \E d \in Delays :
        /\ clock + d <= MaxTime
        /\ LET s == writeIsEnabled(LayerState, ~isEnabled, cesiumScene, leafletMap, d)
           IN  /\ Commit(s)
               /\ Called("toggleEnabled", Some(~s.isEnabled))
        /\ UNCHANGED <<isLegendVisible, rectangle, legendUrl, scratchRectangle, cesiumScene, leafletMap>>

toggleEnabled ==
    \E d \in Delays :
        /\ clock + d <= MaxTime
        /\ LET s == writeIsEnabled(LayerState, ~isEnabled, cesiumScene, leafletMap, d)
           IN  /\ Commit(s)
               /\ Called("toggleEnabled", Some(s.isEnabled))
        /\ UNCHANGED <<isLegendVisible, rectangle, legendUrl, scratchRectangle, cesiumScene, leafletMap>>

toggleShown ==
    /\ LET s == writeIsShown(LayerState, ~isShown, cesiumScene, leafletMap)
       IN  /\ Commit(s)
           /\ Called("toggleShown", Some(s.isShown))
    /\ UNCHANGED <<isLegendVisible, rectangle, legendUrl, scratchRectangle, cesiumScene, leafletMap>>

toggleLegendVisible ==
    /\ isLegendVisible' = ~isLegendVisible
    /\ effects' = <<>>
    /\ Called("toggleLegendVisible", Some(isLegendVisible'))
    /\ UNCHANGED <<isEnabled, isShown, enabledDate, shownDate, rectangle, legendUrl,
                   scratchRectangle, cesiumScene, leafletMap, nowViewing, clock, enabledAt, shownAt, monitor, engineMonitor>>

\* viewModel.isEnabled = v
AssignIsEnabled(v) ==
    \E d \in Delays :
        /\ clock + d <= MaxTime
        /\ LET s == writeIsEnabled(LayerState, v, cesiumScene, leafletMap, d)
           IN  /\ Commit(s)
               /\ Called("isEnabled=", None)
        /\ UNCHANGED <<isLegendVisible, rectangle, legendUrl, scratchRectangle, cesiumScene, leafletMap>>

\* viewModel.isShown = v
AssignIsShown(v) ==
    /\ LET s == writeIsShown(LayerState, v, cesiumScene, leafletMap)
       IN  /\ Commit(s)
           /\ Called("isShown=", None)
    /\ UNCHANGED <<isLegendVisible, rectangle, legendUrl, scratchRectangle, cesiumScene, leafletMap>>

(* ---------------------------------------------------------------------- *)
(* zoomTo                                                                  *)
(* ---------------------------------------------------------------------- *)
\* CesiumMath.toDegrees, in hundredths of a degree
toDegrees(x) == (x * 18000) \div PI

\* rectangleToLatLngBounds(rect): the south-west and north-east corners as
\* (latitude, longitude) pairs in degrees
rectangleToLatLngBounds(rect) ==
    [southWest |-> <<toDegrees(rect.south), toDegrees(rect.west)>>,
     northEast |-> <<toDegrees(rect.north), toDegrees(rect.east)>>]

\* as padRectangle, but the second test repeats the first one
padRectangle_WidthTwice(rect) ==
    LET r1 == IF rect.east - rect.west < EPSILON3
              THEN [rect EXCEPT !.east = @ + EPSILON3, !.west = @ - EPSILON3]
              ELSE rect
    IN  IF rect.east - rect.west < EPSILON3
        THEN [r1 EXCEPT !.north = @ + EPSILON3, !.south = @ - EPSILON3]
        ELSE r1

\* the padding zoomTo applies to the clone of this.rectangle
padRectangle(rect) ==
    LET r1 == IF rect.east - rect.west < EPSILON3
              THEN [rect EXCEPT !.east = @ + EPSILON3, !.west = @ - EPSILON3]
              ELSE rect
    IN  IF r1.north - r1.south < EPSILON3
        THEN [r1 EXCEPT !.north = @ + EPSILON3, !.south = @ - EPSILON3]
        ELSE r1

\* as zoomToCalls, but with the 2D engine in an else branch of the 3D test
zoomToCalls_ElseIf(rect, c, l) ==
    <<Ga("zoomTo", None)>>
    \o (IF c THEN <<Tween(rect)>>
        ELSE IF l THEN <<FitBounds(rectangleToLatLngBounds(rect))>>
        ELSE <<>>)

\* the calls zoomTo makes once it has decided to proceed with destination rect
zoomToCalls(rect, c, l) ==
    <<Ga("zoomTo", None)>>
    \o (IF c THEN <<Tween(rect)>> ELSE <<>>)
    \o (IF l THEN <<FitBounds(rectangleToLatLngBounds(rect))>> ELSE <<>>)

\* as zoomToIgnored, without the test of isShown
zoomToIgnored_NoShownTest == ~isEnabled \/ ~defined(rectangle)

\* the first test of zoomTo
zoomToIgnored == ~isEnabled \/ ~isShown \/ ~defined(rectangle)

\* as zoomToTooWide, but refusing only what is wider than the whole world
zoomToTooWide_WholeWorld(rect) == rect.east - rect.west > PI + PI

\* as zoomToTooWide, with the operands of the subtraction exchanged
zoomToTooWide_Swapped(rect) == rect.west - rect.east > HalfWorld

\* the second test of zoomTo: the extent is wider than half the world
zoomToTooWide(rect) == rect.east - rect.west > HalfWorld

\* as zoomTo, but the padding is applied to this.rectangle itself
zoomTo_PadsInPlace ==
    /\ IF zoomToIgnored
       THEN /\ effects' = <<>>
            /\ UNCHANGED <<scratchRectangle, rectangle>>
       ELSE IF zoomToTooWide(Val(rectangle))
       THEN /\ effects' = <<ConsoleLog>>
            /\ UNCHANGED <<scratchRectangle, rectangle>>
       ELSE LET rect == padRectangle(Val(rectangle))
            IN  /\ rectangle' = Some(rect)
                /\ effects' = zoomToCalls(rect, cesiumScene, leafletMap)
                /\ UNCHANGED scratchRectangle
    /\ Called("zoomTo", None)
    /\ UNCHANGED <<isEnabled, isShown, isLegendVisible, enabledDate, shownDate,
                   legendUrl, cesiumScene, leafletMap, nowViewing, clock, enabledAt, shownAt>>
    /\ monitor' = Observe(monitor, effects')
    /\ engineMonitor' = ObserveHooks(engineMonitor, effects')

zoomTo ==
    /\ IF zoomToIgnored
       THEN /\ effects' = <<>>
            /\ UNCHANGED scratchRectangle
       ELSE IF zoomToTooWide(Val(rectangle))
       THEN /\ effects' = <<ConsoleLog>>
            /\ UNCHANGED scratchRectangle
       ELSE \* rect is scratchRectangle itself, filled by Rectangle.clone
            LET rect == padRectangle(Val(rectangle))
            IN  /\ scratchRectangle' = rect
                /\ effects' = zoomToCalls(rect, cesiumScene, leafletMap)
    /\ Called("zoomTo", None)
    /\ UNCHANGED <<isEnabled, isShown, isLegendVisible, enabledDate, shownDate, rectangle,
                   legendUrl, cesiumScene, leafletMap, nowViewing, clock, enabledAt, shownAt>>
    /\ monitor' = Observe(monitor, effects')
    /\ engineMonitor' = ObserveHooks(engineMonitor, effects')

(* ---------------------------------------------------------------------- *)
(* What the rest of the application does to the layer and its context      *)
(* ---------------------------------------------------------------------- *)
\* viewModel.rectangle = r
SetRectangle(r) ==
    /\ rectangle' = r
    /\ UNCHANGED <<isEnabled, isShown, isLegendVisible, enabledDate, shownDate, legendUrl,
                   scratchRectangle, cesiumScene, leafletMap, nowViewing, clock, effects,
                   lastCall, enabledAt, shownAt, monitor, engineMonitor>>

\* context.cesiumScene is set or cleared
SetCesiumScene(b) ==
    /\ cesiumScene' = b
    /\ UNCHANGED <<isEnabled, isShown, isLegendVisible, enabledDate, shownDate, rectangle,
                   legendUrl, scratchRectangle, leafletMap, nowViewing, clock, effects,
                   lastCall, enabledAt, shownAt, monitor>>
    /\ engineMonitor' = HandleChanged(engineMonitor, b # cesiumScene)

\* context.leafletMap is set or cleared
SetLeafletMap(b) ==
    /\ leafletMap' = b
    /\ UNCHANGED <<isEnabled, isShown, isLegendVisible, enabledDate, shownDate, rectangle,
                   legendUrl, scratchRectangle, cesiumScene, nowViewing, clock, effects,
                   lastCall, enabledAt, shownAt, monitor>>
    /\ engineMonitor' = HandleChanged(engineMonitor, b # leafletMap)

\* time passes between two operations
Tick(d) ==
    /\ clock + d <= MaxTime
    /\ clock' = clock + d
    /\ UNCHANGED <<isEnabled, isShown, isLegendVisible, enabledDate, shownDate, rectangle,
                   legendUrl, scratchRectangle, cesiumScene, leafletMap, nowViewing, effects,
                   lastCall, enabledAt, shownAt, monitor, engineMonitor>>

Next ==
    \/ toggleEnabled
    \/ toggleShown
    \/ toggleLegendVisible
    \/ \E v \in BOOLEAN : AssignIsEnabled(v)
    \/ \E v \in BOOLEAN : AssignIsShown(v)
    \/ zoomTo
    \/ \E r \in MainRectangles : SetRectangle(r)
    \/ \E b \in BOOLEAN : SetCesiumScene(b)
    \/ \E b \in BOOLEAN : SetLeafletMap(b)
    \/ \E d \in Steps : Tick(d)

Spec == Init /\ [][Next]_vars

\* the layer's flags, rectangle and context vary
NextZoom ==
    \/ toggleEnabled
    \/ toggleShown
    \/ zoomTo
    \/ \E r \in ZoomRectangles : SetRectangle(r)
    \/ \E b \in BOOLEAN : SetCesiumScene(b)
    \/ \E b \in BOOLEAN : SetLeafletMap(b)

\* no time is left on the clock
InitZoom == InitAt(MaxTime)

SpecZoom == InitZoom /\ [][NextZoom]_vars

(* ---------------------------------------------------------------------- *)
(* The legend properties.  A string is a sequence of one-character strings *)
(* ---------------------------------------------------------------------- *)
UpperCase == <<"A", "B", "C", "D", "E", "F", "G", "H", "I", "J", "K", "L", "M",
               "N", "O", "P", "Q", "R", "S", "T", "U", "V", "W", "X", "Y", "Z">>

LowerCase == <<"a", "b", "c", "d", "e", "f", "g", "h", "i", "j", "k", "l", "m",
               "n", "o", "p", "q", "r", "s", "t", "u", "v", "w", "x", "y", "z">>

toLowerCase(ch) ==
    IF \E i \in 1..Len(UpperCase) : UpperCase[i] = ch
    THEN LowerCase[CHOOSE i \in 1..Len(UpperCase) : UpperCase[i] = ch]
    ELSE ch

\* as imageUrlRegex, but matching a file extension only: /\.(png|jpg|jpeg|gif)/i
imageUrlRegex_DotOnly ==
    [class |-> {"."},
     alternatives |-> << <<"p", "n", "g">>, <<"j", "p", "g">>, <<"j", "p", "e", "g">>, <<"g", "i", "f">> >>,
     ignoreCase |-> TRUE]

\* /[.\/](png|jpg|jpeg|gif)/i
imageUrlRegex ==
    [class |-> {".", "/"},
     alternatives |-> << <<"p", "n", "g">>, <<"j", "p", "g">>, <<"j", "p", "e", "g">>, <<"g", "i", "f">> >>,
     ignoreCase |-> TRUE]

\* one character of the subject against one character of the pattern
charMatches(re, ch, pat) ==
    IF re.ignoreCase THEN toLowerCase(ch) = toLowerCase(pat) ELSE ch = pat

\* the alternative word matches str from position i on
wordMatchesAt(re, str, i, word) ==
    /\ i + Len(word) - 1 <= Len(str)
    /\ \A k \in 1..Len(word) : charMatches(re, str[i + k - 1], word[k])

\* the regular expression matches str at position i: a character of the
\* class, then one of the alternatives
regexMatchesAt(re, str, i) ==
    /\ str[i] \in re.class
    /\ \E a \in 1..Len(re.alternatives) : wordMatchesAt(re, str, i + 1, re.alternatives[a])

\* String.prototype.match with a regular expression without the g flag: null,
\* or an array of the leftmost match and its captured group
match(str, re) ==
    LET starts == {i \in 1..Len(str) : regexMatchesAt(re, str, i)}
    IN  IF starts = {}
        THEN [kind |-> "null"]
        ELSE LET i == CHOOSE j \in starts : \A k \in starts : j <= k
                 a == CHOOSE b \in 1..Len(re.alternatives) :
                        /\ wordMatchesAt(re, str, i + 1, re.alternatives[b])
                        /\ \A b2 \in 1..(b - 1) : ~wordMatchesAt(re, str, i + 1, re.alternatives[b2])
                 n == Len(re.alternatives[a])
             IN  [kind |-> "array", index |-> i,
                  whole |-> SubSeq(str, i, i + n), group |-> SubSeq(str, i + 1, i + n)]

hasLegend == defined(legendUrl) /\ Len(Val(legendUrl)) > 0

\* the value of the legendIsImage getter: false, or what match returns
legendIsImage ==
    IF ~defined(legendUrl) \/ Len(Val(legendUrl)) = 0
    THEN [kind |-> "boolean", value |-> FALSE]
    ELSE match(Val(legendUrl), imageUrlRegex)

\* JavaScript truthiness of such a value
truthy(v) == v.kind = "array" \/ (v.kind = "boolean" /\ v.value)

\* the parts legend URLs are made of
Parts == { <<"x">>, <<".">>, <<"/">>, <<"p", "n", "g">>, <<"P", "N", "G">>, <<"j", "p", "g">>,
           <<"j", "p", "e", "g">>, <<"G", "i", "f">>, <<".", "s", "v", "g">> }

RECURSIVE Flatten(_)
Flatten(ps) == IF ps = <<>> THEN <<>> ELSE Head(ps) \o Flatten(Tail(ps))

\* undefined, the empty string and every concatenation of at most MaxParts parts
LegendUrls ==
    {None} \cup {Some(Flatten(ps)) : ps \in UNION {[1..n -> Parts] : n \in 0..MaxParts}}

\* viewModel.legendUrl = u
SetLegendUrl(u) ==
    /\ legendUrl' = u
    /\ UNCHANGED <<isEnabled, isShown, isLegendVisible, enabledDate, shownDate, rectangle,
                   scratchRectangle, cesiumScene, leafletMap, nowViewing, clock, effects,
                   lastCall, enabledAt, shownAt, monitor, engineMonitor>>

\* the catalogue assigns the legend URL of a layer once
NextLegend ==
    \/ /\ ~defined(legendUrl)
       /\ \E u \in LegendUrls : SetLegendUrl(u)
    \/ toggleLegendVisible

SpecLegend == Init /\ [][NextLegend]_vars

(* ---------------------------------------------------------------------- *)
(* Properties                                                              *)
(* ---------------------------------------------------------------------- *)
HasEffect(es, e) == \E i \in 1..Len(es) : es[i] = e

EffectsOfKind(es, kind) == SelectSeq(es, LAMBDA e : e.kind = kind)

GaEvents(es, action) == SelectSeq(es, LAMBDA e : e.kind = "ga" /\ e.name = action)

\* C1: between operations, isShown = true implies isEnabled = true.
C1_ShownImpliesEnabled == isShown => isEnabled

\* C2: an operation that changes isEnabled from false to true leaves isShown
\* true when it completes.
C2_EnableShows == [][(~isEnabled /\ isEnabled') => isShown']_vars

\* a hidden, disabled layer was enabled and its handler showed it
C2_Witness ==
    /\ lastCall.op \in {"toggleEnabled", "isEnabled="}
    /\ ~lastCall.before
    /\ isEnabled
    /\ isShown
    /\ HasEffect(effects, Ga("shown", None))

\* C3: between operations, the layer is in the now-viewing collection if and
\* only if isEnabled is true.
C3_NowViewingIffEnabled == InNowViewing <=> isEnabled

\* the layer was added to the collection and has just been removed from it
C3_Witness ==
    /\ ~isEnabled
    /\ ~InNowViewing
    /\ HasEffect(effects, NowViewingCall("remove"))
    /\ defined(enabledDate)

\* C4: the second of two successive toggleEnabled() calls returns the value
\* isEnabled had before the first one, and leaves isEnabled at that value.
C4_ToggleEnabledTwice ==
    [][(/\ lastCall.op = "toggleEnabled"
        /\ lastCall'.op = "toggleEnabled"
        /\ lastCall' # lastCall)
       => (/\ lastCall'.ret = Some(lastCall.before)
           /\ isEnabled' = lastCall.before)]_vars

\* toggleEnabled() was called twice in succession on an enabled layer
C4_Witness ==
    /\ lastCall.op = "toggleEnabled"
    /\ lastCall.repeat
    /\ lastCall.ret = Some(TRUE)
    /\ isEnabled

\* C5: zoomTo() on a layer that is not enabled, or not shown, or has no
\* rectangle calls nothing and changes nothing.
C5_ZoomToIgnored ==
    [][(zoomTo /\ (~isEnabled \/ ~isShown \/ ~defined(rectangle)))
       => (effects' = <<>> /\ UNCHANGED layerVars /\ UNCHANGED scratchRectangle)]_vars

\* zoomTo() was called on a hidden layer that is enabled, has an ordinary
\* rectangle and both engines
C5_Witness ==
    /\ lastCall.op = "zoomTo"
    /\ isEnabled
    /\ ~isShown
    /\ rectangle = Some(Rect(0, 0, 100, 100))
    /\ cesiumScene
    /\ leafletMap
    /\ effects = <<>>

\* C6: zoomTo() on an enabled, shown layer whose rectangle is wider than 3.14
\* logs a warning and does nothing else.
C6_ZoomToTooWide ==
    [][(/\ zoomTo
        /\ isEnabled
        /\ isShown
        /\ defined(rectangle)
        /\ Val(rectangle).east - Val(rectangle).west > HalfWorld)
       => (effects' = <<ConsoleLog>> /\ UNCHANGED layerVars)]_vars

\* zoomTo() was refused for a rectangle just wider than 3.14, both engines present
C6_Witness ==
    /\ lastCall.op = "zoomTo"
    /\ isEnabled
    /\ isShown
    /\ rectangle = Some(Rect(0, 0, HalfWorld + 1, 100))
    /\ cesiumScene
    /\ leafletMap
    /\ effects = <<ConsoleLog>>

\* C7: the 'removed' event of a change of isEnabled to false carries the whole
\* seconds from the time of the last change of isEnabled to true, recorded in
\* _enabledDate, to the time of the change to false, and that is not negative.
C7_RemovedDuration ==
    [][(isEnabled /\ ~isEnabled')
       => (/\ enabledDate = enabledAt
           /\ defined(enabledAt)
           /\ clock' - Val(enabledAt) >= 0
           /\ GaEvents(effects', "removed")
                = <<Ga("removed", Some((clock' - Val(enabledAt)) \div MsPerSecond))>>)]_vars

\* a layer was disabled a second and a half after it was enabled
C7_Witness ==
    /\ ~isEnabled
    /\ defined(enabledAt)
    /\ clock - Val(enabledAt) = 1500
    /\ HasEffect(effects, Ga("removed", Some(1)))

\* C8: on a change of isEnabled the enable or disable hook of each engine
\* present is called once, the 3D engine first, the hooks of an absent engine
\* are not called, and the now-viewing update and the event happen anyway.
C8_EngineHooks ==
    [][(isEnabled' # isEnabled)
       => (/\ SelectSeq(effects', LAMBDA e : e.kind = "hook" /\ e.name \in
                  {"enableInCesium", "disableInCesium", "enableInLeaflet", "disableInLeaflet"})
                = (IF cesiumScene
                   THEN <<Hook(IF isEnabled' THEN "enableInCesium" ELSE "disableInCesium")>>
                   ELSE <<>>)
                  \o (IF leafletMap
                      THEN <<Hook(IF isEnabled' THEN "enableInLeaflet" ELSE "disableInLeaflet")>>
                      ELSE <<>>)
           /\ EffectsOfKind(effects', "nowViewing")
                = <<NowViewingCall(IF isEnabled' THEN "add" ELSE "remove")>>
           /\ Len(GaEvents(effects', IF isEnabled' THEN "added" ELSE "removed")) = 1)]_vars

\* a layer was disabled with both engines present
C8_Witness ==
    /\ ~isEnabled
    /\ cesiumScene
    /\ leafletMap
    /\ EffectsOfKind(effects, "hook") = <<Hook("disableInCesium"), Hook("disableInLeaflet")>>
    /\ HasEffect(effects, NowViewingCall("remove"))

\* what C9 says of one dimension: lo and hi are the stored bounds, dlo and
\* dhi those of the destination
C9_Dimension(lo, hi, dlo, dhi) ==
    /\ (0 <= hi - lo /\ hi - lo < EPSILON3)
         => (/\ dlo = lo - EPSILON3
             /\ dhi = hi + EPSILON3
             /\ dhi - dlo = (hi - lo) + 2 * EPSILON3
             /\ dhi - dlo >= EPSILON3)
    /\ (hi - lo >= EPSILON3) => (dlo = lo /\ dhi = hi)

C9_Destination(r, dest) ==
    /\ C9_Dimension(r.west, r.east, dest.west, dest.east)
    /\ C9_Dimension(r.south, r.north, dest.south, dest.north)

\* C9: when zoomTo() proceeds, a dimension of the rectangle narrower than
\* epsilon is widened by epsilon on each side in the flight destination, and a
\* dimension of at least epsilon is passed on unchanged.
C9_Padding ==
    [][(/\ zoomTo
        /\ isEnabled
        /\ isShown
        /\ defined(rectangle)
        /\ Val(rectangle).east - Val(rectangle).west <= HalfWorld)
       => (/\ C9_Destination(Val(rectangle), scratchRectangle')
           /\ \A i \in 1..Len(effects') :
                effects'[i].kind = "tween"
                  => C9_Destination(Val(rectangle), effects'[i].destination)
           /\ cesiumScene => Len(EffectsOfKind(effects', "tween")) = 1)]_vars

\* a flight was requested to a rectangle nine units wide and a hundred high:
\* the width was padded, the height was not
C9_Witness ==
    /\ lastCall.op = "zoomTo"
    /\ rectangle = Some(Rect(0, 0, 9, 100))
    /\ HasEffect(effects, Tween(Rect(-EPSILON3, 0, 9 + EPSILON3, 100)))

\* the file extension of a URL: what follows its last dot, when that dot is
\* in the last segment of the path
C10_Extension(u) ==
    LET dots == {i \in 1..Len(u) : u[i] = "."}
        slashes == {i \in 1..Len(u) : u[i] = "/"}
        lastDot == CHOOSE i \in dots : \A j \in dots : j <= i
    IN  IF dots = {} \/ (\E j \in slashes : j > lastDot)
        THEN <<>>
        ELSE SubSeq(u, lastDot + 1, Len(u))

C10_ImageWords == { <<"p", "n", "g">>, <<"j", "p", "g">>, <<"j", "p", "e", "g">>, <<"g", "i", "f">> }

C10_Lower(u) == [i \in 1..Len(u) |-> toLowerCase(u[i])]

\* C10 as claimed: legendIsImage holds if and only if legendUrl is a non-empty
\* string whose file extension is png, jpg, jpeg or gif in any case.
C10_ExtensionOnly ==
    truthy(legendIsImage)
      <=> (/\ defined(legendUrl)
           /\ Len(Val(legendUrl)) > 0
           /\ C10_Lower(C10_Extension(Val(legendUrl))) \in C10_ImageWords)

\* C10, amended: legendIsImage is truthy if and only if legendUrl is a string
\* that contains somewhere a '.' or a '/' followed at once by png, jpg, jpeg or
\* gif in any case; it is false for an undefined or empty legendUrl.
C10_MarkerAnywhere ==
    /\ truthy(legendIsImage)
         <=> (/\ defined(legendUrl)
              /\ \E i \in 1..Len(Val(legendUrl)) : \E w \in C10_ImageWords :
                   /\ Val(legendUrl)[i] \in {".", "/"}
                   /\ i + Len(w) <= Len(Val(legendUrl))
                   /\ C10_Lower(SubSeq(Val(legendUrl), i + 1, i + Len(w))) = w)
    /\ (~defined(legendUrl) \/ Val(legendUrl) = <<>>)
         => legendIsImage = [kind |-> "boolean", value |-> FALSE]

\* the legend "/png.svg" counts as an image though its extension is svg
C10_Witness ==
    /\ legendUrl = Some(<<"/", "p", "n", "g", ".", "s", "v", "g">>)
    /\ truthy(legendIsImage)

\* the hook a was called, and the hook b after it
HookAfter(es, a, b) ==
    \E i \in 1..Len(es) : \E j \in (i + 1)..Len(es) : es[i] = Hook(a) /\ es[j] = Hook(b)

\* C11: when isEnabled changes to true while isShown is false, the effects
\* are, in this order: the enable hooks, the show hooks, the 'shown' event
\* and the shown timestamp, the addition to the now-viewing collection, the
\* 'added' event and the enabled timestamp.
C11_EnableOrder ==
    [][(~isEnabled /\ isEnabled' /\ ~isShown)
       => (/\ effects' =
                (IF cesiumScene THEN <<Hook("enableInCesium")>> ELSE <<>>)
                \o (IF leafletMap THEN <<Hook("enableInLeaflet")>> ELSE <<>>)
                \o (IF cesiumScene THEN <<Hook("showInCesium")>> ELSE <<>>)
                \o (IF leafletMap THEN <<Hook("showInLeaflet")>> ELSE <<>>)
                \o <<Ga("shown", None), NowViewingCall("add"), Ga("added", None)>>
           /\ shownDate' = Some(clock)
           /\ enabledDate' = Some(clock')
           /\ clock <= clock')]_vars

\* a hidden layer was enabled with both engines present, and time passed
\* between the two timestamps
C11_Witness ==
    /\ lastCall.op = "toggleEnabled"
    /\ isEnabled
    /\ cesiumScene
    /\ leafletMap
    /\ Len(effects) = 7
    /\ effects[3] = Hook("showInCesium")
    /\ effects[5] = Ga("shown", None)
    /\ effects[7] = Ga("added", None)
    /\ defined(shownDate)
    /\ defined(enabledDate)
    /\ Val(shownDate) < Val(enabledDate)

C13_EnableCallsShow ==
    [][(~isEnabled /\ isEnabled')
       => (/\ cesiumScene => HookAfter(effects', "enableInCesium", "showInCesium")
           /\ leafletMap => HookAfter(effects', "enableInLeaflet", "showInLeaflet"))]_vars

\* C15: assigning isEnabled, or isShown, the value it holds runs no handler:
\* nothing is called, and no flag, timestamp or collection changes.
C15_SameValueNoHandler ==
    [][(AssignIsEnabled(isEnabled) \/ AssignIsShown(isShown))
       => (/\ effects' = <<>>
           /\ UNCHANGED <<isEnabled, isShown, enabledDate, shownDate, nowViewing>>)]_vars

\* true was assigned to isShown of a layer already shown, both engines present
C15_Witness ==
    /\ lastCall.op = "isShown="
    /\ lastCall.repeat
    /\ isShown
    /\ cesiumScene
    /\ leafletMap
    /\ effects = <<>>

\* C16: when zoomTo() proceeds it sends one 'zoomTo' event, then requests a
\* flight on the 3D engine if and only if it is present and a fitBounds on the
\* 2D engine if and only if it is present, both to the same destination.
C16_ZoomToCalls ==
    [][(/\ zoomTo
        /\ isEnabled
        /\ isShown
        /\ defined(rectangle)
        /\ Val(rectangle).east - Val(rectangle).west <= HalfWorld)
       => (\E dest \in {scratchRectangle'} :
             effects' = <<Ga("zoomTo", None)>>
                        \o (IF cesiumScene THEN <<Tween(dest)>> ELSE <<>>)
                        \o (IF leafletMap
                            THEN <<FitBounds(rectangleToLatLngBounds(dest))>>
                            ELSE <<>>))]_vars

\* zoomTo() proceeded with both engines present
C16_Witness ==
    /\ lastCall.op = "zoomTo"
    /\ cesiumScene
    /\ leafletMap
    /\ rectangle = Some(Rect(0, 0, 100, 100))
    /\ effects = <<Ga("zoomTo", None), Tween(Rect(0, 0, 100, 100)),
                   FitBounds(rectangleToLatLngBounds(Rect(0, 0, 100, 100)))>>

\* C19: zoomTo() changes no field of the layer, and calls no enable, disable,
\* show or hide hook and sends no added, removed, shown or hidden event.
C19_ZoomToFrame ==
    [][zoomTo
       => (/\ UNCHANGED layerVars
           /\ EffectsOfKind(effects', "hook") = <<>>
           /\ EffectsOfKind(effects', "nowViewing") = <<>>
           /\ \A i \in 1..Len(effects') :
                effects'[i].kind = "ga" => effects'[i].name = "zoomTo")]_vars

\* zoomTo() padded both dimensions of its copy; the rectangle of the layer
\* is as it was
C19_Witness ==
    /\ lastCall.op = "zoomTo"
    /\ rectangle = Some(Rect(0, 0, 0, 9))
    /\ scratchRectangle = Rect(-EPSILON3, -EPSILON3, EPSILON3, 9 + EPSILON3)
    /\ HasEffect(effects, Ga("zoomTo", None))

\* C20: zoomTo() on a layer that has the whole-world default rectangle requests
\* no flight, calls no fitBounds and sends no 'zoomTo' event.
C20_DefaultRectangle ==
    [][(zoomTo /\ rectangle = Some(MAX_VALUE))
       => (/\ EffectsOfKind(effects', "tween") = <<>>
           /\ EffectsOfKind(effects', "fitBounds") = <<>>
           /\ GaEvents(effects', "zoomTo") = <<>>)]_vars

\* zoomTo() was refused on an enabled, shown layer with the default rectangle
C20_Witness ==
    /\ lastCall.op = "zoomTo"
    /\ isEnabled
    /\ isShown
    /\ rectangle = Some(MAX_VALUE)
    /\ cesiumScene
    /\ leafletMap
    /\ effects = <<ConsoleLog>>

(* ---------------------------------------------------------------------- *)
(* The engines are watched while the flags and the handles vary            *)
(* ---------------------------------------------------------------------- *)
NextEngines ==
    \/ toggleEnabled
    \/ toggleShown
    \/ \E v \in BOOLEAN : AssignIsEnabled(v)
    \/ \E v \in BOOLEAN : AssignIsShown(v)
    \/ \E b \in BOOLEAN : SetCesiumScene(b)
    \/ \E b \in BOOLEAN : SetLeafletMap(b)

InitEngines == InitAtWatching(MaxTime, TRUE)

SpecEngines == InitEngines /\ [][NextEngines]_vars

\* C14: every 'hidden' event carries the whole seconds since isShown last
\* changed to true, which is not negative: the shown timestamp is set at every
\* hide, so neither the enabled timestamp nor an undefined duration is used.
C14_HiddenDuration ==
    [][(isShown /\ ~isShown')
       => (/\ defined(shownDate)
           /\ shownDate = shownAt
           /\ clock' - Val(shownAt) >= 0
           /\ GaEvents(effects', "hidden")
                = <<Ga("hidden", Some((clock' - Val(shownAt)) \div MsPerSecond))>>)]_vars

\* a layer was hidden a second and a half after it was shown
C14_Witness ==
    /\ ~isShown
    /\ defined(shownAt)
    /\ clock - Val(shownAt) = 1500
    /\ HasEffect(effects, Ga("hidden", Some(1)))

\* C17: the 'added' and 'removed' events alternate from 'added' on, the 'shown'
\* and 'hidden' events alternate from 'shown' on, and between operations the
\* last of the former is 'added' if and only if isEnabled, the last of the
\* latter 'shown' if and only if isShown.
C17_EventsAlternate ==
    /\ monitor.alternating
    /\ (monitor.lastAddRemove = "added") <=> isEnabled
    /\ (monitor.lastShowHide = "shown") <=> isShown

\* the layer was enabled, hidden, disabled and enabled again: the last call
\* sent 'shown' and 'added' for the second time
C17_Witness ==
    /\ lastCall.op = "toggleEnabled"
    /\ lastCall.repeat
    /\ isEnabled
    /\ GaEvents(effects, "shown") # <<>>
    /\ GaEvents(effects, "added") # <<>>
    /\ monitor.alternating

\* C18 as claimed: a disable (hide) hook of an engine is called only after an
\* enable (show) hook of that engine with no disable (hide) hook in between,
\* also when the engine handles change while the layer is enabled or shown.
C18_HooksPaired == engineMonitor.paired

\* C18, amended: a disable (hide) hook of an engine is called only after an
\* enable (show) hook of that engine with no disable (hide) hook in between,
\* as long as no engine handle of the context has changed while the layer was
\* enabled or shown.
C18_HooksPairedFixedHandles == ~engineMonitor.tampered => engineMonitor.paired

\* both engines were given to the context while the layer was neither enabled
\* nor shown, and the layer was then enabled and disabled in both
C18_Witness ==
    /\ engineMonitor.watching
    /\ ~engineMonitor.tampered
    /\ engineMonitor.paired
    /\ engineMonitor.cesiumShown
    /\ engineMonitor.leafletShown
    /\ ~engineMonitor.cesiumEnabled
    /\ ~engineMonitor.leafletEnabled
    /\ HasEffect(effects, Hook("disableInCesium"))
    /\ HasEffect(effects, Hook("disableInLeaflet"))

====
